---- MODULE Spec2Model ----
(***************************************************************************)
(* A model of xarray_dataclasses: the dataarrayclass decorator and its     *)
(* helpers (core.py) and lazy_import (util.py).                            *)
(*                                                                         *)
(* Python dicts are ordered: a dict is a sequence of records with a `name` *)
(* field and no name twice.  An exception is the name of its Python type.  *)
(* An array is [shape, data]: data holds the entries in row-major order; a *)
(* scalar is the array of shape <<>>.                                      *)
(***************************************************************************)
EXTENDS Integers, Sequences, FiniteSets, TLC

VARIABLES
    creator,      \* the base callable handed to dataarrayclass/get_creator: its parameters
    cls,          \* the class being decorated
    built,        \* <<>>, or <<c>> with c the creator get_creator returned
    op,           \* the last operation called
    status,       \* its outcome: "ok" or the exception raised
    inst,         \* the keyword arguments / instance fields of the last call
    passed,       \* the keyword arguments the base callable received in the last call
    out,          \* <<>>, or <<a>> with a the DataArray the last call returned
    raisedAt,     \* the field set_coord was working on when the last call raised
    sysModules,   \* sys.modules: a dict of [name, module]
    requested,    \* the name the last lazy_import was called with
    loaded        \* <<>>, or <<m>> with m the module the last lazy_import returned

vars == <<creator, cls, built, op, status, inst, passed, out, raisedAt,
          sysModules, requested, loaded>>

MaxFields == 2

(***************************************************************************)
(* Ordered dicts                                                           *)
(***************************************************************************)
Range(s) == {s[i] : i \in 1..Len(s)}

Keys(d) == {d[i].name : i \in 1..Len(d)}

KeySeq(d) == [i \in 1..Len(d) |-> d[i].name]

Has(d, k) == k \in Keys(d)

Get(d, k) == d[CHOOSE i \in 1..Len(d) : d[i].name = k]

\* d[item.name] = item: a key already present keeps its place
DictSet(d, item) ==
    IF Has(d, item.name)
    THEN [i \in 1..Len(d) |-> IF d[i].name = item.name THEN item ELSE d[i]]
    ELSE Append(d, item)

\* {**d, **e}
RECURSIVE DictMerge(_, _)
DictMerge(d, e) ==
    IF e = <<>> THEN d ELSE DictMerge(DictSet(d, Head(e)), Tail(e))

\* the sequences over S of length at most n, without a repeated name
RECURSIVE DictsOver(_, _)
DictsOver(S, n) ==
    IF n = 0 THEN {<<>>}
    ELSE LET shorter == DictsOver(S, n - 1)
         IN  shorter \cup
             {Append(d, x) : <<d, x>> \in
                 {p \in shorter \X S : Len(p[1]) = n - 1 /\ ~Has(p[1], p[2].name)}}

(***************************************************************************)
(* Annotations.  "empty" is inspect's Parameter.empty; "Any" is typing.Any *)
(* (not an instance of type); "int" is a class that is no DataArray;       *)
(* "Coord" is a DataArray[dims, dtype] class.                              *)
(***************************************************************************)
Empty == [tag |-> "empty", dims |-> <<>>]
AnyT == [tag |-> "Any", dims |-> <<>>]
IntT == [tag |-> "int", dims |-> <<>>]
Coord(dims) == [tag |-> "Coord", dims |-> dims]

\* isinstance(t, type)
IsType(t) == t.tag \in {"int", "Coord"}

\* issubclass(t, DataArray)
IsDataArray(t) == t.tag = "Coord"

(***************************************************************************)
(* Arrays                                                                  *)
(***************************************************************************)
RECURSIVE Prod(_)
Prod(shape) == IF shape = <<>> THEN 1 ELSE Head(shape) * Prod(Tail(shape))

Scalar(v) == [shape |-> <<>>, data |-> <<v>>]

\* an array of the given shape with the entries 1, 2, 3, ... (all different)
Arange(shape) == [shape |-> shape, data |-> [i \in 1..Prod(shape) |-> i]]

\* the exception get_creator raises, and the one np.full raises for a value that
\* does not fit the shape
ConfigurationError == "ValueError"
ShapeError == "ValueError"

\* the row-major strides of a shape
Stride(shape, i) == Prod(SubSeq(shape, i + 1, Len(shape)))

\* the index along axis i of the n-th entry (n counted from 0)
Unravel(n, shape, i) == (n \div Stride(shape, i)) % shape[i]

RECURSIVE SumTo(_, _)
SumTo(f, n) == IF n = 0 THEN 0 ELSE f[n] + SumTo(f, n - 1)

\* NumPy's assignment strips size-1 axes from the left of a source of higher rank
RECURSIVE StripLeadingOnes(_, _)
StripLeadingOnes(src, ndim) ==
    IF Len(src) > ndim /\ Head(src) = 1 THEN StripLeadingOnes(Tail(src), ndim) ELSE src

\* the source shape aligned to the right of a target of rank ndim
PadLeft(src, ndim) ==
    [i \in 1..ndim |-> IF i <= ndim - Len(src) THEN 1 ELSE src[i - (ndim - Len(src))]]

\* whether NumPy can broadcast an array of shape src into one of shape `shape`
Broadcastable(src, shape) ==
    LET s == StripLeadingOnes(src, Len(shape))
    IN  /\ Len(s) <= Len(shape)
        /\ \A i \in 1..Len(shape) :
              PadLeft(s, Len(shape))[i] \in {1, shape[i]}

\* mutant: np.full that takes a scalar or an array of exactly the shape
np_full_exact(shape, value) ==
    IF value.shape # <<>> /\ value.shape # shape
    THEN [status |-> ShapeError, array |-> <<>>]
    ELSE [status |-> "ok",
          array |-> <<[shape |-> shape,
                       data |-> [k \in 1..Prod(shape) |->
                                    IF value.shape = <<>> THEN value.data[1]
                                    ELSE value.data[k]]]>>]

\* np.full(shape, value)
np_full(shape, value) ==
    IF ~Broadcastable(value.shape, shape)
    THEN [status |-> ShapeError, array |-> <<>>]
    ELSE LET p == PadLeft(StripLeadingOnes(value.shape, Len(shape)), Len(shape))
             from(n) ==
                 1 + SumTo([i \in 1..Len(shape) |->
                               (IF p[i] = 1 THEN 0 ELSE Unravel(n, shape, i)) * Stride(p, i)],
                           Len(shape))
         IN  [status |-> "ok",
              array |-> <<[shape |-> shape,
                           data |-> [k \in 1..Prod(shape) |-> value.data[from(k - 1)]]]>>]

(***************************************************************************)
(* DataArray                                                               *)
(***************************************************************************)
\* DataArray[dims, dtype](raw): the raw array labelled with dims.  The values of
\* the model are of the dtype declared, so that the cast to it changes no entry
TypedArray(dims, raw) ==
    [dims |-> dims, shape |-> raw.shape, data |-> raw.data, coords |-> <<>>]

HasDim(da, dim) == \E i \in 1..Len(da.dims) : da.dims[i] = dim

\* dataarray.sizes[dim]
Sizes(da, dim) == da.shape[CHOOSE i \in 1..Len(da.dims) : da.dims[i] = dim]

\* mutant: set_coord that takes the shape of the whole primary array
set_coord_whole(dataarray, field, value) ==
    LET dims == field.type.dims
        full == np_full(dataarray.shape, value)
    IN  IF \E i \in 1..Len(dims) : ~HasDim(dataarray, dims[i])
        THEN [status |-> "KeyError", dataarray |-> <<>>]
        ELSE IF full.status # "ok"
        THEN [status |-> full.status, dataarray |-> <<>>]
        ELSE [status |-> "ok",
              dataarray |->
                  <<[dataarray EXCEPT !.coords =
                        DictSet(@, [name |-> field.name, dims |-> dims,
                                    value |-> TypedArray(dims, full.array[1])])]>>]

\* mutant: set_coord that takes size 1 for a dimension the primary array lacks
set_coord_lenient(dataarray, field, value) ==
    LET dims == field.type.dims
        shape == [i \in 1..Len(dims) |->
                     IF HasDim(dataarray, dims[i]) THEN Sizes(dataarray, dims[i]) ELSE 1]
        full == np_full(shape, value)
    IN  IF full.status # "ok"
        THEN [status |-> full.status, dataarray |-> <<>>]
        ELSE [status |-> "ok",
              dataarray |->
                  <<[dataarray EXCEPT !.coords =
                        DictSet(@, [name |-> field.name, dims |-> dims,
                                    value |-> TypedArray(dims, full.array[1])])]>>]

set_coord(dataarray, field, value) ==
    LET dims == field.type.dims
    IN  IF \E i \in 1..Len(dims) : ~HasDim(dataarray, dims[i])
        THEN [status |-> "KeyError", dataarray |-> <<>>]
        ELSE LET shape == [i \in 1..Len(dims) |-> Sizes(dataarray, dims[i])]
                 full == np_full(shape, value)
             IN  IF full.status # "ok"
                 THEN [status |-> full.status, dataarray |-> <<>>]
                 ELSE [status |-> "ok",
                       dataarray |->
                           <<[dataarray EXCEPT !.coords =
                                 DictSet(@, [name |-> field.name, dims |-> dims,
                                             value |-> TypedArray(dims, full.array[1])])]>>]

(***************************************************************************)
(* Creators                                                                *)
(***************************************************************************)
Param(name, kind, annotation, default) ==
    [name |-> name, kind |-> kind, annotation |-> annotation, default |-> default]

\* mutant: the loop without its check of variadic keyword parameters
RECURSIVE CheckParameters_positional(_)
CheckParameters_positional(params) ==
    IF params = <<>> THEN "ok"
    ELSE LET par == Head(params)
         IN  IF par.annotation = Empty THEN ConfigurationError
             ELSE IF par.kind = "VAR_POSITIONAL" THEN ConfigurationError
             ELSE CheckParameters_positional(Tail(params))

\* the loop of get_creator over sig.parameters: the first offending parameter raises
RECURSIVE CheckParameters(_)
CheckParameters(params) ==
    IF params = <<>> THEN "ok"
    ELSE LET par == Head(params)
         IN  IF par.annotation = Empty THEN ConfigurationError
             ELSE IF par.kind = "VAR_POSITIONAL" THEN ConfigurationError
             ELSE IF par.kind = "VAR_KEYWORD" THEN ConfigurationError
             ELSE CheckParameters(Tail(params))

\* copy_wraps(creator)(wrapper): the wrapper takes over the signature of the creator
copy_wraps(params, dims) == [params |-> params, dims |-> dims]

get_creator(params, dims) ==
    IF CheckParameters(params) # "ok"
    THEN [status |-> CheckParameters(params), creator |-> <<>>]
    ELSE [status |-> "ok", creator |-> <<copy_wraps(params, dims)>>]

\* Python's binding of keyword arguments to a callable without variadic parameters
Bind(params, kwargs) ==
    IF \/ \E i \in 1..Len(kwargs) : ~Has(params, kwargs[i].name)
       \/ \E i \in 1..Len(params) :
             params[i].default = <<>> /\ ~Has(kwargs, params[i].name)
    THEN "TypeError"
    ELSE "ok"

\* mutant: a wrapper that pops nothing
PopUnknown_none(kwargs, params) == kwargs

\* the loop of the wrapper over tuple(kwargs.keys())
RECURSIVE PopUnknown(_, _)
PopUnknown(kwargs, params) ==
    IF kwargs = <<>> THEN <<>>
    ELSE IF ~Has(params, Head(kwargs).name)
         THEN PopUnknown(Tail(kwargs), params)
         ELSE <<Head(kwargs)>> \o PopUnknown(Tail(kwargs), params)

\* get_creator's wrapper(**kwargs); ret is what the base callable returns for
\* the arguments it is given
CreatorCall(c, kwargs, ret) ==
    LET kept == PopUnknown(kwargs, c.params)
    IN  IF Bind(c.params, kept) # "ok"
        THEN [status |-> Bind(c.params, kept), passed |-> kept, dataarray |-> <<>>]
        ELSE [status |-> "ok", passed |-> kept,
              dataarray |-> <<TypedArray(c.dims, ret)>>]

(***************************************************************************)
(* The class                                                               *)
(***************************************************************************)
\* a class as written: its annotations and the defaults set in its body
ClassOf(body) ==
    [annotations |-> [i \in 1..Len(body) |-> [name |-> body[i].name, type |-> body[i].type]],
     attrs |-> LET withDefault == SelectSeq(body, LAMBDA f : f.default # <<>>)
               IN  [i \in 1..Len(withDefault) |->
                       [name |-> withDefault[i].name, value |-> withDefault[i].default[1]]],
     creator |-> <<>>,
     fields |-> <<>>,
     dataclass |-> FALSE]

Annotation(par) == [name |-> par.name, type |-> par.annotation]

\* mutant: the class's own annotations merged first
update_annotations_own_first(c, params) ==
    LET leading == SelectSeq(params, LAMBDA par : par.kind # "KEYWORD_ONLY")
        trailing == SelectSeq(params, LAMBDA par : par.kind = "KEYWORD_ONLY")
        dict(ps) == DictMerge(<<>>, [i \in 1..Len(ps) |-> Annotation(ps[i])])
    IN  [c EXCEPT !.annotations =
            DictMerge(DictMerge(c.annotations, dict(leading)), dict(trailing))]

update_annotations(c, params) ==
    LET leading == SelectSeq(params, LAMBDA par : par.kind # "KEYWORD_ONLY")
        trailing == SelectSeq(params, LAMBDA par : par.kind = "KEYWORD_ONLY")
        dict(ps) == DictMerge(<<>>, [i \in 1..Len(ps) |-> Annotation(ps[i])])
    IN  [c EXCEPT !.annotations =
            DictMerge(DictMerge(dict(leading), c.annotations), dict(trailing))]

RECURSIVE update_defaults(_, _)
update_defaults(c, params) ==
    IF params = <<>> THEN c
    ELSE LET par == Head(params)
             set == IF par.default # <<>>
                    THEN [c EXCEPT !.attrs =
                             DictSet(@, [name |-> par.name, value |-> par.default[1]])]
                    ELSE c
         IN  update_defaults(set, Tail(params))

\* dataclasses.dataclass(cls): one field per annotation, in order, its default the
\* class attribute of its name; a field without default after one with raises
dataclass(c) ==
    LET fields == [i \in 1..Len(c.annotations) |->
                      [name |-> c.annotations[i].name,
                       type |-> c.annotations[i].type,
                       default |-> IF Has(c.attrs, c.annotations[i].name)
                                   THEN <<Get(c.attrs, c.annotations[i].name).value>>
                                   ELSE <<>>]]
    IN  IF \E i, j \in 1..Len(fields) :
              i < j /\ fields[i].default # <<>> /\ fields[j].default = <<>>
        THEN [status |-> "TypeError", cls |-> c]
        ELSE [status |-> "ok", cls |-> [c EXCEPT !.fields = fields, !.dataclass = TRUE]]

\* mutant: a decorator that refuses a class whose first field is a DataArray
dataarrayclass_primary_checked(c, params, dims) ==
    LET made == get_creator(params, dims)
    IN  IF made.status # "ok"
        THEN [status |-> made.status, cls |-> c]
        ELSE LET c2 == update_annotations([c EXCEPT !.creator = made.creator],
                                          made.creator[1].params)
                 c3 == update_defaults(c2, made.creator[1].params)
             IN  IF c3.annotations # <<>> /\ IsDataArray(c3.annotations[1].type)
                 THEN [status |-> ConfigurationError, cls |-> c3]
                 ELSE dataclass(c3)

\* mutant: a decorator that updates the class before it builds the creator
dataarrayclass_update_first(c, params, dims) ==
    LET made == get_creator(params, dims)
        c3 == update_defaults(update_annotations(c, params), params)
    IN  IF made.status # "ok"
        THEN [status |-> made.status, cls |-> c3]
        ELSE dataclass([c3 EXCEPT !.creator = made.creator])

\* the decorator dataarrayclass(dims, dtype, creator) returns, applied to a class
dataarrayclass(c, params, dims) ==
    LET made == get_creator(params, dims)
    IN  IF made.status # "ok"
        THEN [status |-> made.status, cls |-> c]
        ELSE LET dataarray_creator == made.creator[1]
                 c1 == [c EXCEPT !.creator = <<dataarray_creator>>]
                 c2 == update_annotations(c1, dataarray_creator.params)
                 c3 == update_defaults(c2, dataarray_creator.params)
             IN  dataclass(c3)

\* the loop of to_dataarray over inst.__dataclass_fields__.values()
RECURSIVE SetCoords(_, _, _)
SetCoords(fields, instance, dataarray) ==
    IF fields = <<>> THEN [status |-> "ok", dataarray |-> <<dataarray>>, raisedAt |-> ""]
    ELSE LET field == Head(fields)
         IN  IF ~IsType(field.type) THEN SetCoords(Tail(fields), instance, dataarray)
             ELSE IF ~IsDataArray(field.type)
                  THEN SetCoords(Tail(fields), instance, dataarray)
             ELSE LET set == set_coord(dataarray, field, Get(instance, field.name).value)
                  IN  IF set.status # "ok"
                      THEN [status |-> set.status, dataarray |-> <<>>,
                            raisedAt |-> field.name]
                      ELSE SetCoords(Tail(fields), instance, set.dataarray[1])

\* mutant: to_dataarray that takes the first field for the data and skips it
to_dataarray_rest(c, instance, ret) ==
    LET made == CreatorCall(c.creator[1], instance, ret)
    IN  IF made.status # "ok"
        THEN [status |-> made.status, passed |-> made.passed, dataarray |-> <<>>,
              raisedAt |-> ""]
        ELSE LET done == SetCoords(IF c.fields = <<>> THEN <<>> ELSE Tail(c.fields),
                                   instance, made.dataarray[1])
             IN  [status |-> done.status, passed |-> made.passed,
                  dataarray |-> done.dataarray, raisedAt |-> done.raisedAt]

\* instance is asdict(inst): the fields' values, in field order
to_dataarray(c, instance, ret) ==
    LET made == CreatorCall(c.creator[1], instance, ret)
    IN  IF made.status # "ok"
        THEN [status |-> made.status, passed |-> made.passed, dataarray |-> <<>>,
              raisedAt |-> ""]
        ELSE LET done == SetCoords(c.fields, instance, made.dataarray[1])
             IN  [status |-> done.status, passed |-> made.passed,
                  dataarray |-> done.dataarray, raisedAt |-> done.raisedAt]

(***************************************************************************)
(* lazy_import                                                             *)
(***************************************************************************)
ModuleNames == {"a", "a.b", "a.c", "m", "m.x", "n", "n.k"}

\* the modules a finder finds on the path, and those of them that are packages
Findable == {"a", "a.b", "m"}
Packages == {"a"}

\* requested.rpartition(".")[0]
Parent(name) ==
    CASE name \in {"a.b", "a.c"} -> "a"
      [] name = "m.x" -> "m"
      [] name = "n.k" -> "n"
      [] OTHER -> ""

NewModule(mods, lazy) == [id |-> Len(mods) + 1, lazy |-> lazy]

\* a lazy module loads on the first access to one of its attributes
Loaded(module) == [module EXCEPT !.lazy = FALSE]

\* importlib.util.find_spec(name), name not in sys.modules: a parent package is
\* imported first (and registered by that import, or loaded if it was lazy)
find_spec(name, mods) ==
    LET parent == Parent(name)
    IN  IF parent = "" THEN [status |-> "ok", found |-> name \in Findable, modules |-> mods]
        ELSE IF ~Has(mods, parent) /\ parent \notin Findable
        THEN [status |-> "ModuleNotFoundError", found |-> FALSE, modules |-> mods]
        ELSE LET imported == IF Has(mods, parent)
                             THEN DictSet(mods, [name |-> parent,
                                                 module |-> Loaded(Get(mods, parent).module)])
                             ELSE Append(mods, [name |-> parent,
                                                module |-> NewModule(mods, FALSE)])
             IN  IF parent \notin Packages
                 THEN [status |-> "ModuleNotFoundError", found |-> FALSE,
                       modules |-> imported]
                 ELSE [status |-> "ok", found |-> name \in Findable, modules |-> imported]

\* mutant: lazy_import that does not look the name up in sys.modules first
lazy_import_fresh(module_name, mods) ==
    LET spec == find_spec(module_name, mods)
    IN  IF spec.status # "ok"
        THEN [status |-> spec.status, ret |-> <<>>, modules |-> spec.modules]
        ELSE IF ~spec.found
        THEN [status |-> "ImportError", ret |-> <<>>, modules |-> spec.modules]
        ELSE LET module == NewModule(spec.modules, TRUE)
             IN  [status |-> "ok", ret |-> <<module>>,
                  modules |-> DictSet(spec.modules,
                                      [name |-> module_name, module |-> module])]

lazy_import(module_name, mods) ==
    IF Has(mods, module_name)
    THEN [status |-> "ok", ret |-> <<Get(mods, module_name).module>>, modules |-> mods]
    ELSE LET spec == find_spec(module_name, mods)
         IN  IF spec.status # "ok"
             THEN [status |-> spec.status, ret |-> <<>>, modules |-> spec.modules]
             ELSE IF ~spec.found
             THEN [status |-> "ImportError", ret |-> <<>>, modules |-> spec.modules]
             ELSE LET module == NewModule(spec.modules, TRUE)
                  IN  [status |-> "ok", ret |-> <<module>>,
                       modules |-> DictSet(spec.modules,
                                           [name |-> module_name, module |-> module])]

(***************************************************************************)
(* Inputs                                                                  *)
(***************************************************************************)
\* the dims given to dataarrayclass, and the shapes of the arrays a creator returns
ClassDims == <<"x", "y">>
PrimaryShapes == {<<2, 3>>, <<3, 3>>}

None == Scalar(0)

Signatures ==
    { <<>>,
      <<Param("data", "POSITIONAL_OR_KEYWORD", AnyT, <<>>)>>,
      <<Param("data", "POSITIONAL_OR_KEYWORD", AnyT, <<>>),
        Param("name", "POSITIONAL_OR_KEYWORD", AnyT, <<None>>)>>,
      <<Param("data", "POSITIONAL_OR_KEYWORD", AnyT, <<>>),
        Param("name", "KEYWORD_ONLY", AnyT, <<>>)>>,
      <<Param("name", "KEYWORD_ONLY", IntT, <<None>>)>>,
      <<Param("data", "POSITIONAL_OR_KEYWORD", IntT, <<None>>)>>,
      <<Param("data", "POSITIONAL_OR_KEYWORD", Coord(ClassDims), <<>>)>>,
      <<Param("data", "POSITIONAL_OR_KEYWORD", Empty, <<>>)>>,
      <<Param("data", "POSITIONAL_OR_KEYWORD", AnyT, <<>>),
        Param("name", "POSITIONAL_OR_KEYWORD", Empty, <<None>>)>>,
      <<Param("args", "VAR_POSITIONAL", AnyT, <<>>)>>,
      <<Param("data", "POSITIONAL_OR_KEYWORD", AnyT, <<>>),
        Param("args", "VAR_POSITIONAL", Empty, <<>>)>>,
      <<Param("data", "POSITIONAL_OR_KEYWORD", AnyT, <<>>),
        Param("kwargs", "VAR_KEYWORD", AnyT, <<>>)>> }

\* class bodies: fields named data (as the creators' parameter), x and c
ClassFields ==
    {[name |-> n, type |-> t, default |-> <<>>] :
        n \in {"data", "x", "c"}, t \in {AnyT, IntT, Coord(<<"x">>)}}
    \cup {[name |-> n, type |-> Coord(<<"x">>), default |-> <<None>>] :
        n \in {"data", "x", "c"}}

ClassValues == {Scalar(5), Arange(<<2>>)}

\* class bodies of coordinate fields only, of several dims
CoordDims == {<<>>, <<"x">>, <<"x", "y">>, <<"y", "x">>, <<"z">>}

CoordFields ==
    {[name |-> n, type |-> Coord(d), default |-> <<>>] :
        n \in {"c1", "c2", "c3"}, d \in CoordDims}

CoordValues ==
    {Scalar(5), Arange(<<2>>), Arange(<<3>>), Arange(<<1, 3>>), Arange(<<2, 3>>),
     Arange(<<3, 2>>)}

\* keyword arguments: each key of the sequence absent or given one of the values
RECURSIVE KwargsOver(_, _)
KwargsOver(keys, values) ==
    IF keys = <<>> THEN {<<>>}
    ELSE LET rest == KwargsOver(Tail(keys), values)
         IN  rest \cup {<<[name |-> Head(keys), value |-> v]>> \o r :
                           v \in values, r \in rest}

CallKeys == <<"data", "name", "x", "extra">>

\* what is imported before the first lazy_import: a module only with its parent
RECURSIVE Registry(_, _)
Registry(names, mods) ==
    IF names = <<>> THEN mods
    ELSE Registry(Tail(names),
                  Append(mods, [name |-> Head(names), module |-> NewModule(mods, FALSE)]))

InitialModules ==
    {Registry(names, <<>>) :
        names \in {<<>>, <<"a">>, <<"m">>, <<"a", "m">>, <<"a", "a.b">>,
                   <<"a", "a.b", "m">>}}

(***************************************************************************)
(* The state machine                                                       *)
(***************************************************************************)
InitWith(signatures, bodies, registries) ==
    /\ creator \in signatures
    /\ cls \in {ClassOf(b) : b \in bodies}
    /\ built = <<>>
    /\ op = "init"
    /\ status = "ok"
    /\ inst = <<>>
    /\ passed = <<>>
    /\ out = <<>>
    /\ raisedAt = ""
    /\ sysModules \in registries
    /\ requested = ""
    /\ loaded = <<>>

\* get_creator(creator, dims, dtype)
GetCreator ==
    /\ op = "init"
    /\ LET made == get_creator(creator, ClassDims)
       IN  /\ built' = made.creator
           /\ status' = made.status
    /\ op' = "get_creator"
    /\ UNCHANGED <<creator, cls, inst, passed, out, raisedAt, sysModules, requested, loaded>>

\* a call of the creator get_creator returned, with keyword arguments.  The call
\* reads the creator and its arguments only: a later call reaches no other state
\* than the first one does
CallCreator ==
    /\ op = "get_creator"
    /\ built # <<>>
    /\ \E kwargs \in KwargsOver(CallKeys, ClassValues), shape \in PrimaryShapes :
          LET made == CreatorCall(built[1], kwargs, Arange(shape))
          IN  /\ inst' = kwargs
              /\ status' = made.status
              /\ passed' = made.passed
              /\ out' = made.dataarray
    /\ op' = "creator"
    /\ UNCHANGED <<creator, cls, built, raisedAt, sysModules, requested, loaded>>

\* @dataarrayclass(dims, dtype, creator) applied to the class
Decorate ==
    /\ op = "init"
    /\ LET made == dataarrayclass(cls, creator, ClassDims)
       IN  /\ cls' = made.cls
           /\ status' = made.status
    /\ op' = "dataarrayclass"
    /\ UNCHANGED <<creator, built, inst, passed, out, raisedAt, sysModules, requested, loaded>>

\* to_dataarray(inst), inst an instance of the decorated class.  The call reads
\* the class and the instance only: a later call reaches no other state than the
\* first one does
ToDataArrayOf(plain, coordinate, shapes) ==
    /\ op = "dataarrayclass"
    /\ cls.dataclass
    /\ \E values \in [1..Len(cls.fields) -> plain \cup coordinate], shape \in shapes :
          /\ \A i \in 1..Len(cls.fields) :
                values[i] \in IF IsDataArray(cls.fields[i].type) THEN coordinate ELSE plain
          /\ LET instance == [i \in 1..Len(cls.fields) |->
                                 [name |-> cls.fields[i].name, value |-> values[i]]]
                 made == to_dataarray(cls, instance, Arange(shape))
             IN  /\ inst' = instance
                 /\ status' = made.status
                 /\ passed' = made.passed
                 /\ out' = made.dataarray
                 /\ raisedAt' = made.raisedAt
    /\ op' = "to_dataarray"
    /\ UNCHANGED <<creator, cls, built, sysModules, requested, loaded>>

ToDataArray == ToDataArrayOf(ClassValues, ClassValues, PrimaryShapes)

ToDataArrayCoords == ToDataArrayOf({Scalar(5)}, CoordValues, {<<2, 3>>})

LazyImport ==
    /\ \E name \in ModuleNames :
          LET made == lazy_import(name, sysModules)
          IN  /\ requested' = name
              /\ status' = made.status
              /\ loaded' = made.ret
              /\ sysModules' = made.modules
    /\ op' = "lazy_import"
    /\ UNCHANGED <<creator, cls, built, inst, passed, out, raisedAt>>

\* classes and their instances
Init == InitWith(Signatures, DictsOver(ClassFields, MaxFields), {<<>>})
Next == Decorate \/ ToDataArray
Spec == Init /\ [][Next]_vars

\* creators alone
InitCreator == InitWith(Signatures, {<<>>}, {<<>>})
NextCreator == GetCreator \/ CallCreator
SpecCreator == InitCreator /\ [][NextCreator]_vars

\* coordinates of every shape
InitCoords ==
    InitWith({<<Param("data", "POSITIONAL_OR_KEYWORD", AnyT, <<>>)>>},
             DictsOver(CoordFields, MaxFields), {<<>>})
NextCoords == Decorate \/ ToDataArrayCoords
SpecCoords == InitCoords /\ [][NextCoords]_vars

\* the module registry
InitImport == InitWith({<<>>}, {<<>>}, InitialModules)
NextImport == LazyImport
SpecImport == InitImport /\ [][NextImport]_vars

(***************************************************************************)
(* Properties                                                              *)
(***************************************************************************)
\* a field whose declared type is a Coordinate
IsCoordinate(f) == f.type.tag = "Coord"

Leading(params) == SelectSeq(params, LAMBDA par : par.kind # "KEYWORD_ONLY")

Coordinates(fields) == SelectSeq(fields, IsCoordinate)
Passthrough(fields) == SelectSeq(fields, LAMBDA f : ~IsCoordinate(f))

\* C1: when the first field of the decorated class is no Coordinate, to_dataarray
\* takes that field for the data (it is the creator's first positional parameter
\* when the creator has one, is handed to the creator unchanged, and is never
\* attached), attaches the Coordinate fields after it in field order, and attaches
\* no other field; an error of set_coord comes from one of those Coordinate fields.
C1_Classification ==
    (op = "to_dataarray" /\ cls.fields # <<>> /\ ~IsCoordinate(cls.fields[1])) =>
        LET primary == cls.fields[1]
            rest == Tail(cls.fields)
        IN  /\ Leading(creator) # <<>> =>
                  /\ primary.name = Leading(creator)[1].name
                  /\ Has(passed, primary.name)
                  /\ Get(passed, primary.name) = Get(inst, primary.name)
            /\ status = "ok" =>
                  /\ KeySeq(out[1].coords) = KeySeq(Coordinates(rest))
                  /\ primary.name \notin Keys(out[1].coords)
                  /\ Keys(Passthrough(rest)) \cap Keys(out[1].coords) = {}
                  /\ Len(Coordinates(rest)) + Len(Passthrough(rest)) + 1 = Len(cls.fields)
            /\ status # "ok" => raisedAt \in Keys(Coordinates(rest))

C1_Witness ==
    /\ op = "to_dataarray"
    /\ status = "ok"
    /\ Len(cls.fields) = 3
    /\ ~IsCoordinate(cls.fields[1])
    /\ IsCoordinate(cls.fields[2])
    /\ ~IsCoordinate(cls.fields[3])
    /\ Len(out[1].coords) = 1

\* a creator's parameters that get_creator refuses
Refused(params) ==
    \E i \in 1..Len(params) :
        \/ params[i].annotation = Empty
        \/ params[i].kind \in {"VAR_POSITIONAL", "VAR_KEYWORD"}

\* C2, as claimed: a class whose first field is a Coordinate is refused with a
\* ConfigurationError and no class is produced.
C2_Original ==
    (op = "dataarrayclass" /\ cls.creator # <<>> /\ cls.annotations # <<>>
        /\ IsCoordinate(cls.annotations[1]))
    => (status = ConfigurationError /\ ~cls.dataclass)

\* C2, amended: a first field that is a Coordinate does not make class setup fail.
\* The decorator raises ValueError exactly for a refused creator and TypeError
\* exactly for a field without default after one with; otherwise the class is
\* produced, and to_dataarray attaches its first field as the first coordinate.
C2_FirstCoordinate ==
    /\ (op = "dataarrayclass" /\ cls.creator # <<>> /\ cls.annotations # <<>>
           /\ IsCoordinate(cls.annotations[1])) =>
          /\ ~Refused(creator)
          /\ status \in {"ok", "TypeError"}
          /\ status = "TypeError" <=>
                \E i, j \in 1..Len(cls.annotations) :
                    /\ i < j
                    /\ Has(cls.attrs, cls.annotations[i].name)
                    /\ ~Has(cls.attrs, cls.annotations[j].name)
          /\ status = "ok" <=> cls.dataclass
    /\ (op = "to_dataarray" /\ cls.fields # <<>> /\ IsCoordinate(cls.fields[1])) =>
          /\ status = "ok" => out[1].coords[1].name = cls.fields[1].name
          /\ status # "ok" => raisedAt \in Keys(Coordinates(cls.fields))

C2_Witness ==
    /\ op = "to_dataarray"
    /\ status = "ok"
    /\ cls.fields # <<>>
    /\ IsCoordinate(cls.fields[1])
    /\ out[1].coords[1].name = cls.fields[1].name

\* C5, as claimed: the coordinates attached are the Coordinate fields after the
\* first field, never the field holding the data.
C5_Original ==
    (op = "to_dataarray" /\ status = "ok" /\ cls.fields # <<>>) =>
        /\ Keys(out[1].coords) = Keys(Coordinates(Tail(cls.fields)))
        /\ cls.fields[1].name \notin Keys(out[1].coords)

\* C5, amended: after a successful to_dataarray the coordinates attached are the
\* fields whose type is a Coordinate, all of them and in field order, the first
\* field included when its type is a Coordinate; no other field is attached.
C5_CoordinateKeys ==
    (op = "to_dataarray" /\ status = "ok") =>
        /\ KeySeq(out[1].coords) = KeySeq(Coordinates(cls.fields))
        /\ \A i \in 1..Len(out[1].coords) :
              out[1].coords[i].dims = Get(cls.fields, out[1].coords[i].name).type.dims

C5_Witness ==
    /\ op = "to_dataarray"
    /\ status = "ok"
    /\ Len(out[1].coords) = 2
    /\ cls.fields # <<>>
    /\ IsCoordinate(cls.fields[1])
    /\ Has(passed, cls.fields[1].name)
    /\ Len(Passthrough(cls.fields)) >= 1

\* what the decorator installs in a class it returns
Installed(c, params) ==
    /\ c.creator = <<[params |-> params, dims |-> ClassDims]>>
    /\ \A i \in 1..Len(params) :
          /\ Has(c.annotations, params[i].name)
          /\ params[i].default # <<>> =>
                /\ Has(c.attrs, params[i].name)
                /\ Get(c.attrs, params[i].name).value = params[i].default[1]
    /\ KeySeq(c.fields) = KeySeq(c.annotations)

\* C9: a decorator call that raises the configuration error leaves the class as
\* it was (annotations, defaults, creator; no dataclass), and it raises it exactly
\* for a refused creator; a class is returned only with everything installed.
C9_SetupFrame ==
    [][ op' = "dataarrayclass" =>
            /\ status' = ConfigurationError <=> Refused(creator)
            /\ status' = ConfigurationError => cls' = cls
            /\ cls'.dataclass <=> status' = "ok"
            /\ cls'.dataclass => Installed(cls', creator) ]_vars

C9_Witness ==
    /\ op = "dataarrayclass"
    /\ status = ConfigurationError
    /\ cls.annotations # <<>>
    /\ cls.attrs # <<>>
    /\ \E i \in 1..Len(creator) : creator[i].default # <<>>

\* C3: get_creator raises the configuration error exactly when some parameter of
\* the base callable has no annotation, or is variadic (positional or keyword,
\* annotated or not); otherwise it returns a creator with the callable's parameters.
C3_CreatorRefusal ==
    op = "get_creator" =>
        /\ (status = ConfigurationError /\ built = <<>>) <=>
              \E i \in 1..Len(creator) :
                  \/ creator[i].annotation = Empty
                  \/ creator[i].kind = "VAR_POSITIONAL"
                  \/ creator[i].kind = "VAR_KEYWORD"
        /\ status \in {"ok", ConfigurationError}
        /\ status = "ok" => (built # <<>> /\ built[1].params = creator)

C3_Witness ==
    /\ op = "get_creator"
    /\ status = ConfigurationError
    /\ \A i \in 1..Len(creator) : creator[i].annotation # Empty
    /\ \E i \in 1..Len(creator) : creator[i].kind = "VAR_KEYWORD"

\* the keyword arguments among kwargs that name a parameter of the creator
Known(kwargs, c) ==
    SelectSeq(kwargs, LAMBDA kw : \E i \in 1..Len(c.params) : c.params[i].name = kw.name)

\* C4: a creator called with keyword arguments hands the base callable exactly
\* the arguments that name one of its parameters, values unchanged, and ends as
\* the call with those arguments alone ends: same outcome, same array.
C4_ExtraKeysDropped ==
    op = "creator" =>
        LET valid == Known(inst, built[1])
        IN  /\ passed = valid
            /\ \A shape \in PrimaryShapes :
                  CreatorCall(built[1], inst, Arange(shape))
                      = CreatorCall(built[1], valid, Arange(shape))
            /\ status = CreatorCall(built[1], valid, Arange(<<2, 3>>)).status
            /\ status = "ok" =>
                  out = CreatorCall(built[1], valid, [shape |-> out[1].shape,
                                                      data |-> out[1].data]).dataarray
            /\ status # "ok" =>
                  \E i \in 1..Len(built[1].params) :
                      /\ built[1].params[i].default = <<>>
                      /\ ~Has(inst, built[1].params[i].name)

C4_Witness ==
    /\ op = "creator"
    /\ status = "ok"
    /\ Has(inst, "extra")
    /\ Has(inst, "x")
    /\ passed # <<>>
    /\ Len(passed) < Len(inst)

\* the shape a coordinate of the given dims takes in the array: the array's sizes
\* of those dims, in the order the dims are listed
Target(da, dims) ==
    [i \in 1..Len(dims) |->
        da.shape[CHOOSE j \in 1..Len(da.dims) : da.dims[j] = dims[i]]]

\* the primary array of the last to_dataarray call: the creator's result
Primary == TypedArray(ClassDims, Arange(<<2, 3>>))

Resolvable(f) == \A i \in 1..Len(f.type.dims) : f.type.dims[i] \in Range(ClassDims)

IsArray(value) == value.shape # <<>>

\* NumPy's broadcasting rule: aligned from the right, every axis of the source is
\* 1 or the target's, and every axis beyond the target's rank is 1
Fits(src, shape) ==
    \A k \in 1..Len(src) :
        IF k <= Len(shape)
        THEN src[Len(src) - k + 1] \in {1, shape[Len(shape) - k + 1]}
        ELSE src[Len(src) - k + 1] = 1

\* C6, as claimed: an array value whose shape differs from the target shape
\* makes to_dataarray fail.
C6_Original ==
    op = "to_dataarray" =>
        \A i \in 1..Len(cls.fields) :
            (/\ IsCoordinate(cls.fields[i])
             /\ Resolvable(cls.fields[i])
             /\ IsArray(inst[i].value)
             /\ inst[i].value.shape # Target(Primary, cls.fields[i].type.dims))
            => (status = ShapeError /\ out = <<>>)

\* C6, amended: to_dataarray fails, with ValueError when it reaches the field
\* and returning nothing, for an array value whose shape cannot be broadcast to
\* the target shape; an array of another shape that can be broadcast to it, as
\* (3,) or (1,3) to (2,3), is broadcast and attached with the target shape.
C6_ShapeMismatch ==
    op = "to_dataarray" =>
        /\ \A i \in 1..Len(cls.fields) :
              (/\ IsCoordinate(cls.fields[i])
               /\ Resolvable(cls.fields[i])
               /\ IsArray(inst[i].value)
               /\ ~Fits(inst[i].value.shape, Target(Primary, cls.fields[i].type.dims)))
              => /\ status # "ok"
                 /\ out = <<>>
                 /\ raisedAt = cls.fields[i].name => status = ShapeError
        /\ (\A i \in 1..Len(cls.fields) :
               IsCoordinate(cls.fields[i]) =>
                   /\ Resolvable(cls.fields[i])
                   /\ Fits(inst[i].value.shape, Target(Primary, cls.fields[i].type.dims)))
           => /\ status = "ok"
              /\ \A i \in 1..Len(cls.fields) :
                    IsCoordinate(cls.fields[i]) =>
                        LET attached == Get(out[1].coords, cls.fields[i].name).value
                        IN  /\ attached.shape = Target(Primary, cls.fields[i].type.dims)
                            /\ Range(attached.data) = Range(inst[i].value.data)

C6_Witness ==
    /\ op = "to_dataarray"
    /\ \E i, j \in 1..Len(cls.fields) :
          /\ cls.fields[i].type = Coord(<<"x">>)
          /\ inst[i].value = Arange(<<3>>)
          /\ raisedAt = cls.fields[i].name
          /\ status = ShapeError
          /\ j < i
          /\ cls.fields[j].type = Coord(<<"x", "y">>)
          /\ inst[j].value = Arange(<<1, 3>>)

\* C7, as claimed: a coordinate whose dims name no axis of the primary array
\* fails as a shape mismatch does, with an error that is no configuration error.
C7_Original ==
    (op = "to_dataarray" /\ raisedAt # "" /\ ~Resolvable(Get(cls.fields, raisedAt)))
    => (status = ShapeError /\ status # ConfigurationError /\ out = <<>>)

\* C7, amended: to_dataarray fails and returns nothing when a coordinate field's
\* dims name a dimension the primary array lacks; the error raised at that field
\* is KeyError, which is neither the ValueError of a shape mismatch nor that of a
\* configuration error, and nothing after that field is looked at.
C7_MissingDimension ==
    op = "to_dataarray" =>
        \A i \in 1..Len(cls.fields) :
            (IsCoordinate(cls.fields[i]) /\ ~Resolvable(cls.fields[i])) =>
                /\ status # "ok"
                /\ out = <<>>
                /\ raisedAt # ""
                /\ \E j \in 1..i : raisedAt = cls.fields[j].name
                /\ raisedAt = cls.fields[i].name =>
                      (status = "KeyError" /\ status # ShapeError
                          /\ status # ConfigurationError)

C7_Witness ==
    /\ op = "to_dataarray"
    /\ status = "KeyError"
    /\ out = <<>>
    /\ raisedAt # ""
    /\ Get(cls.fields, raisedAt).type = Coord(<<"z">>)
    /\ \E j \in 1..Len(cls.fields) :
          IsCoordinate(cls.fields[j]) /\ cls.fields[j].name # raisedAt

\* C8: a coordinate attached by to_dataarray has the field's dims and the shape
\* of the primary array's sizes of those dims in their order; from a scalar every
\* entry is the scalar, from an array of that shape the entries are the array's.
C8_Broadcast ==
    (op = "to_dataarray" /\ status = "ok") =>
        \A i \in 1..Len(cls.fields) :
            IsCoordinate(cls.fields[i]) =>
                LET dims == cls.fields[i].type.dims
                    value == inst[i].value
                    attached == Get(out[1].coords, cls.fields[i].name)
                IN  /\ attached.dims = dims
                    /\ attached.value.dims = dims
                    /\ attached.value.shape = Target(out[1], dims)
                    /\ Len(attached.value.data) = Prod(Target(out[1], dims))
                    /\ ~IsArray(value) =>
                          \A k \in 1..Len(attached.value.data) :
                              attached.value.data[k] = value.data[1]
                    /\ value.shape = Target(out[1], dims) =>
                          attached.value.data = value.data

C8_Witness ==
    /\ op = "to_dataarray"
    /\ status = "ok"
    /\ \E i, j \in 1..Len(cls.fields) :
          /\ cls.fields[i].type = Coord(<<"x">>)
          /\ inst[i].value = Scalar(5)
          /\ Get(out[1].coords, cls.fields[i].name).value.shape = <<2>>
          /\ Get(out[1].coords, cls.fields[i].name).value.data = <<5, 5>>
          /\ cls.fields[j].type = Coord(<<"x", "y">>)
          /\ inst[j].value = Arange(<<2, 3>>)
          /\ Get(out[1].coords, cls.fields[j].name).value.shape = <<2, 3>>
          /\ Get(out[1].coords, cls.fields[j].name).value.data = <<1, 2, 3, 4, 5, 6>>

\* the exceptions that are ImportError or a subclass of it
ImportErrors == {"ImportError", "ModuleNotFoundError"}

ModuleIds(mods) == {mods[i].module.id : i \in 1..Len(mods)}

====
